---- MODULE Spec2Model ----
(***************************************************************************)
(* django-beat-periodic: the registry of @periodic_task declarations, the  *)
(* sync gate and sync_periodic_tasks(), which reconciles the registry with *)
(* the PeriodicTask / IntervalSchedule / CrontabSchedule tables.           *)
(***************************************************************************)
EXTENDS Integers, Sequences, FiniteSets, TLC

VARIABLES
    PERIODIC_TASKS,   \* registry.PERIODIC_TASKS: the list of declarations
    already_synced,   \* sync._already_synced: the gate
    tables_exist,     \* whether PeriodicTask.objects.count() succeeds
    tasks,            \* the PeriodicTask table: a set of rows
    intervals,        \* the IntervalSchedule table: row pk = index
    crontabs,         \* the CrontabSchedule table: row pk = index
    clock,            \* timezone.now(); ticks once per call of sync_periodic_tasks
    run,              \* history: what the latest call of sync_periodic_tasks did
    since,            \* what the environment did since that call
    regs,             \* number of declarations registered so far
    codebase,         \* the module the code under test holds
    pc                \* where each concurrent caller of sync_periodic_tasks is

vars == <<PERIODIC_TASKS, already_synced, tables_exist, tasks, intervals,
          crontabs, clock, run, since, regs, codebase, pc>>

\* ------------------------------------------------------------------ bounds
MaxSteps == 4    \* decorator applications and calls of sync in one behaviour

\* The environment acts only while a call of sync can still follow.
CallsLeft == MaxSteps - regs - clock

\* ------------------------------------------------------------ Python values
\* None / SQL NULL, and a present value of a nullable field.
None == <<>>
Some(v) == <<v>>

\* A declared interval: None, an int (seconds) or a timedelta (milliseconds).
NoInterval == [kind |-> "None"]
IntSeconds(n) == [kind |-> "int", v |-> n]
Timedelta(ms) == [kind |-> "timedelta", ms |-> ms]

\* A declared crontab: None, a str (its characters) or a dict of fields.
NoCrontab == [kind |-> "None"]
CrontabStr(chars) == [kind |-> "str", s |-> chars]
CrontabDict(d) == [kind |-> "dict", d |-> d]

MANAGED_DESCRIPTION == "Managed by django-beat-periodic"

\* timedelta(seconds=interval) for an int, the timedelta itself otherwise.
ToTimedelta(interval) ==
    IF interval.kind = "int" THEN Timedelta(interval.v * 1000) ELSE interval

\* int(interval.total_seconds()): truncation toward zero.
IntTotalSeconds(td) ==
    IF td.ms >= 0 THEN td.ms \div 1000 ELSE -((-td.ms) \div 1000)

\* Python truthiness of the interval (after line 84) and of the crontab.
TruthyInterval(interval) ==
    /\ interval.kind # "None"
    /\ ToTimedelta(interval).ms # 0

TruthyCrontab(crontab) ==
    \/ crontab.kind = "str" /\ crontab.s # <<>>
    \/ crontab.kind = "dict" /\ DOMAIN crontab.d # {}

\* str.split(): the maximal runs of non-whitespace characters.
IsSpace(c) == c \in {" ", "\t", "\n"}

RECURSIVE SplitFrom(_, _, _, _)
SplitFrom(chars, i, word, parts) ==
    IF i > Len(chars)
    THEN IF word = "" THEN parts ELSE Append(parts, word)
    ELSE IF IsSpace(chars[i])
         THEN SplitFrom(chars, i + 1, "",
                        IF word = "" THEN parts ELSE Append(parts, word))
         ELSE SplitFrom(chars, i + 1, word \o chars[i], parts)

Split(chars) == SplitFrom(chars, 1, "", <<>>)

\* json.dumps of a list of small ints and of a dict (its items in order).
Digits == <<"1", "2", "3", "4", "5", "6", "7", "8", "9">>
IntStr(n) == IF n = 0 THEN "0" ELSE Digits[n]

RECURSIVE JoinList(_, _)
JoinList(xs, i) ==
    IF i > Len(xs) THEN ""
    ELSE (IF i > 1 THEN ", " ELSE "") \o IntStr(xs[i]) \o JoinList(xs, i + 1)

JsonDumpsList(xs) == "[" \o JoinList(xs, 1) \o "]"

RECURSIVE JoinItems(_, _)
JoinItems(items, i) ==
    IF i > Len(items) THEN ""
    ELSE (IF i > 1 THEN ", " ELSE "") \o "\"" \o items[i][1] \o "\": "
         \o IntStr(items[i][2]) \o JoinItems(items, i + 1)

JsonDumpsDict(items) == "{" \o JoinItems(items, 1) \o "}"

\* dict.pop(key, default) as a read; Rest is what the pops leave in kwargs.
Pop(kw, key, default) == IF key \in DOMAIN kw THEN kw[key] ELSE default

PoppedKeys == {"name", "start_time", "args", "kwargs", "queue", "priority"}
Rest(kw) == [k \in (DOMAIN kw) \ PoppedKeys |-> kw[k]]

\* ------------------------------------------------------------------ store
\* CrontabSchedule's field defaults, used by get_or_create for unsupplied fields.
CrontabDefaults ==
    [minute |-> "*", hour |-> "*", day_of_month |-> "*",
     month_of_year |-> "*", day_of_week |-> "*"]

\* Model.objects.get_or_create(**filter): the one matching row, a new row when
\* none matches, MultipleObjectsReturned when several do.
Matching(table, filter) ==
    {pk \in 1..Len(table) : \A k \in DOMAIN filter : table[pk][k] = filter[k]}

\* As GetOrCreate, without the lookup.
GetOrCreateWithoutGet(table, filter, defaults) ==
    [raised |-> FALSE, created |-> TRUE, pk |-> Len(table) + 1,
     table |-> Append(table, filter @@ defaults)]

GetOrCreate(table, filter, defaults) ==
    LET found == Matching(table, filter)
    IN  IF found = {}
        THEN [raised |-> FALSE, created |-> TRUE, pk |-> Len(table) + 1,
              table |-> Append(table, filter @@ defaults)]
        ELSE IF Cardinality(found) = 1
        THEN [raised |-> FALSE, created |-> FALSE,
              pk |-> CHOOSE pk \in found : TRUE, table |-> table]
        ELSE [raised |-> TRUE, created |-> FALSE, pk |-> 0, table |-> table]

\* history: a store write or the notification, and the iteration that made it
\* (0: after the loop).
Event(op, names, decl) == [op |-> op, names |-> names, decl |-> decl]

Range(seq) == {seq[i] : i \in 1..Len(seq)}

\* -------------------------------------------------- sync_periodic_tasks
TaskPath(func) == func.module \o "." \o func.name

TaskName(t) == Pop(t.kwargs, "name", TaskPath(t.func))

NoSchedule == [interval |-> None, crontab |-> None, solar |-> None, clocked |-> None]

\* Lines 75-113: the schedule of declaration t, found or created in the store.
\* skip is the `continue` of line 110, raised an exception of get_or_create.
ResolveSchedule(t, i, st) ==
    IF t.interval.kind # "None"
    THEN LET r == GetOrCreate(st.intervals,
                      [every |-> IntTotalSeconds(ToTimedelta(t.interval)),
                       period |-> "seconds"], <<>>)
         IN  [skip |-> FALSE, raised |-> r.raised,
              schedule_kwargs |-> [NoSchedule EXCEPT !.interval = Some(r.pk)],
              st |-> [st EXCEPT !.intervals = r.table,
                        !.log = IF r.created
                                THEN Append(@, Event("create_interval", {}, i))
                                ELSE @]]
    ELSE IF t.crontab.kind = "str" /\ Len(Split(t.crontab.s)) # 5
    THEN [skip |-> TRUE, raised |-> FALSE, schedule_kwargs |-> NoSchedule, st |-> st]
    ELSE IF t.crontab.kind # "None"
    THEN LET parts == Split(t.crontab.s)
             filter == IF t.crontab.kind = "str"
                       THEN [minute |-> parts[1], hour |-> parts[2],
                             day_of_month |-> parts[3], month_of_year |-> parts[4],
                             day_of_week |-> parts[5]]
                       ELSE t.crontab.d
             r == GetOrCreate(st.crontabs, filter, CrontabDefaults)
         IN  [skip |-> FALSE, raised |-> r.raised,
              schedule_kwargs |-> [NoSchedule EXCEPT !.crontab = Some(r.pk)],
              st |-> [st EXCEPT !.crontabs = r.table,
                        !.log = IF r.created
                                THEN Append(@, Event("create_crontab", {}, i))
                                ELSE @]]
    ELSE [skip |-> FALSE, raised |-> FALSE, schedule_kwargs |-> NoSchedule, st |-> st]

\* Lines 115-117: `if not (interval or crontab)`.
HasSchedule(t) == TruthyInterval(t.interval) \/ TruthyCrontab(t.crontab)

\* Lines 123-136: the target state of the row.
BuildDefaults(t, schedule_kwargs, now) ==
    Rest(t.kwargs) @@ schedule_kwargs @@
    [task |-> TaskPath(t.func),
     enabled |-> t.enabled,
     description |-> MANAGED_DESCRIPTION,
     args |-> JsonDumpsList(Pop(t.kwargs, "args", <<>>)),
     kwargs |-> JsonDumpsDict(Pop(t.kwargs, "kwargs", <<>>)),
     queue |-> Pop(t.kwargs, "queue", None),
     priority |-> Pop(t.kwargs, "priority", None),
     start_time |-> Pop(t.kwargs, "start_time", Some(now))]

\* As DifferingKeys, passing over the schedule slots that are None.
DifferingKeysNotNone(obj, defaults) ==
    {k \in DOMAIN defaults :
        /\ ~(k = "start_time" /\ obj.start_time # None)
        /\ ~(k \in DOMAIN NoSchedule /\ defaults[k] = None)
        /\ obj[k] # defaults[k]}

\* As DifferingKeys, without the exception of line 148 for start_time.
DifferingKeysWithStartTime(obj, defaults) ==
    {k \in DOMAIN defaults : obj[k] # defaults[k]}

\* Lines 146-152: the keys of defaults whose value the row does not have.
DifferingKeys(obj, defaults) ==
    {k \in DOMAIN defaults :
        /\ ~(k = "start_time" /\ obj.start_time # None)
        /\ obj[k] # defaults[k]}

\* As Existing, looking among the rows that carry the marker only.
ExistingManaged(rows, name) ==
    {r \in rows : r.name = name /\ r.description = MANAGED_DESCRIPTION}

\* Lines 141-143: the lookup of get_or_create is by name alone.
Existing(rows, name) == {r \in rows : r.name = name}

\* Lines 141-157: get_or_create by name, then update when a field differs.
CreateOrUpdate(name, defaults, i, st0) ==
    LET st == [st0 EXCEPT !.reconciled = @ \cup {name}]
        existing == Existing(st.tasks, name)
    IN  IF existing = {}
        THEN [st EXCEPT !.tasks = @ \cup {[name |-> name] @@ defaults},
                        !.changed = @ + 1,
                        !.log = Append(@, Event("create", {name}, i))]
        ELSE LET obj == CHOOSE r \in existing : TRUE
                 diff == DifferingKeys(obj, defaults)
                 new == [k \in DOMAIN obj |->
                            IF k \in diff THEN defaults[k] ELSE obj[k]]
             IN  IF diff = {} THEN st
                 ELSE [st EXCEPT !.tasks = (@ \ {obj}) \cup {new},
                                 !.changed = @ + 1,
                                 !.log = Append(@, Event("update", {name}, i))]

\* As Continue, raising instead (a ValueError for the declaration).
RaiseInstead(st, i) == [st EXCEPT !.raised = i]

\* Lines 110 and 117: `continue`, on to the next declaration.
Continue(st, i) == st

\* Lines 61-157: one iteration of the loop, for the i-th declaration; fail_at is
\* the iteration in which the store fails the PeriodicTask query (0: never).
LoopBody(t, i, st, fail_at, now) ==
    LET st1 == [st EXCEPT !.active = Append(@, TaskName(t))]
        r == ResolveSchedule(t, i, st1)
    IN  IF r.raised THEN [r.st EXCEPT !.raised = i]
        ELSE IF r.skip \/ ~HasSchedule(t) THEN Continue(r.st, i)
        ELSE IF fail_at = i THEN [r.st EXCEPT !.raised = i]
        ELSE CreateOrUpdate(TaskName(t), BuildDefaults(t, r.schedule_kwargs, now),
                            i, r.st)

RECURSIVE Loop(_, _, _, _, _)
Loop(registry, i, st, fail_at, now) ==
    IF i > Len(registry) \/ st.raised # 0 THEN st
    ELSE Loop(registry, i + 1, LoopBody(registry[i], i, st, fail_at, now),
              fail_at, now)

\* As StaleTasks, without the filter on the description.
StaleTasksOfAnyDescription(rows, active_task_names) ==
    {r \in rows : r.name \notin Range(active_task_names)}

\* Lines 162-175: delete the managed rows whose name was not walked.
StaleTasks(rows, active_task_names) ==
    {r \in rows : r.description = MANAGED_DESCRIPTION
                  /\ r.name \notin Range(active_task_names)}

Purge(st) ==
    LET stale == StaleTasks(st.tasks, st.active)
    IN  IF Cardinality(stale) > 0
        THEN [st EXCEPT !.tasks = @ \ stale,
                        !.changed = @ + Cardinality(stale),
                        !.log = Append(@, Event("delete", {r.name : r \in stale}, 0))]
        ELSE st

\* As Notify, whether or not something changed.
NotifyAlways(st) == [st EXCEPT !.log = Append(@, Event("update_changed", {}, 0))]

\* Lines 177-178: PeriodicTasks.update_changed() when something changed.
Notify(st) ==
    IF st.changed > 0
    THEN [st EXCEPT !.log = Append(@, Event("update_changed", {}, 0))]
    ELSE st

\* As Reconcile, with the loop's error caught: purge and notification follow.
ReconcileCatching(registry, rows, ivs, cts, fail_at, now) ==
    LET st0 == [tasks |-> rows, intervals |-> ivs, crontabs |-> cts,
                active |-> <<>>, reconciled |-> {}, changed |-> 0, log |-> <<>>,
                raised |-> 0]
    IN  Notify(Purge(Loop(registry, 1, st0, fail_at, now)))

\* Lines 56-185: the reconciliation, from the loop to the notification.
Reconcile(registry, rows, ivs, cts, fail_at, now) ==
    LET st0 == [tasks |-> rows, intervals |-> ivs, crontabs |-> cts,
                active |-> <<>>, reconciled |-> {}, changed |-> 0, log |-> <<>>,
                raised |-> 0]
        st1 == Loop(registry, 1, st0, fail_at, now)
    IN  IF st1.raised # 0 THEN st1 ELSE Notify(Purge(st1))

\* ------------------------------------------------------- the declarations
\* @periodic_task(interval, crontab, enabled, **kwargs) applied to func.
Declaration(func, interval, crontab, enabled, kwargs) ==
    [func |-> func, interval |-> interval, crontab |-> crontab,
     enabled |-> enabled, kwargs |-> kwargs]

FuncF == [module |-> "tasks", name |-> "f"]
FuncG == [module |-> "tasks", name |-> "g"]

Cron0300 == <<"0", " ", "3", " ", "*", " ", "*", " ", "*">>
Cron0300Day5 == <<"0", " ", "3", " ", " ", "5", " ", "*", " ", "*">>
CronTwoFields == <<"0", " ", "3">>

\* The decorated functions of a tasks module: between them, every shape of
\* schedule the decorator accepts and the extra named fields sync reads.
IntervalTasks ==
    { Declaration(FuncF, IntSeconds(30), NoCrontab, TRUE, <<>>),
      Declaration(FuncF, Timedelta(10500), CrontabStr(Cron0300), FALSE,
                  [args |-> <<1, 2>>, kwargs |-> <<<<"k", 1>>>>,
                   priority |-> Some(5), start_time |-> None,
                   description |-> "nightly"]),
      Declaration(FuncG, Timedelta(30000), NoCrontab, FALSE,
                  [name |-> "custom-task-name", queue |-> Some("low")]),
      Declaration(FuncG, IntSeconds(0), NoCrontab, TRUE,
                  [name |-> "custom-task-name"]),
      Declaration(FuncF, NoInterval, NoCrontab, TRUE, <<>>) }

CrontabTasks ==
    { Declaration(FuncF, NoInterval, CrontabStr(Cron0300), TRUE, <<>>),
      Declaration(FuncG, NoInterval, CrontabStr(Cron0300Day5), TRUE, <<>>),
      Declaration(FuncG, NoInterval,
                  CrontabDict([minute |-> "0", hour |-> "3"]), TRUE,
                  [start_time |-> Some(9)]),
      Declaration(FuncG, NoInterval,
                  CrontabDict([CrontabDefaults EXCEPT !.minute = "0",
                                                      !.hour = "3"]), TRUE,
                  [name |-> "custom-task-name"]),
      Declaration(FuncF, NoInterval, CrontabStr(CronTwoFields), TRUE, <<>>),
      Declaration(FuncF, IntSeconds(30), NoCrontab, TRUE, <<>>) }

\* The code base under test is one of these modules.
Codebases == {"interval_tasks", "crontab_tasks"}

Decorated(module) ==
    IF module = "interval_tasks" THEN IntervalTasks ELSE CrontabTasks

Declarations == IntervalTasks \cup CrontabTasks

Identities == {TaskName(t) : t \in Declarations}

\* A row made by other means (the admin): no managed marker, a solar schedule.
AdminRow(name) ==
    [name |-> name, task |-> "other.task", enabled |-> TRUE, description |-> "",
     args |-> "[]", kwargs |-> "{}", queue |-> None, priority |-> None,
     start_time |-> None, interval |-> None, crontab |-> None,
     solar |-> Some(1), clocked |-> None]

\* ------------------------------------------------------------------ actions
\* history: the record of one call of sync_periodic_tasks. kind is how it ended,
\* before the PeriodicTask table it found, follows how the call before it ended,
\* repeat whether it follows a completed reconciliation with nothing changed in
\* between, previously what the call before it reconciled.
Call(kind, st, before, schedules, follows, repeat, previously) ==
    [kind |-> kind, log |-> st.log, changed |-> st.changed, raised |-> st.raised,
     reconciled |-> st.reconciled, active |-> st.active, before |-> before,
     schedules |-> schedules,
     follows |-> follows, repeat |-> repeat, previously |-> previously]

\* The numbers of interval and of crontab schedule rows in the store.
Schedules == <<Len(intervals), Len(crontabs)>>

Idle == [log |-> <<>>, changed |-> 0, raised |-> 0, reconciled |-> {}, active |-> <<>>]

\* The threads that may call sync_periodic_tasks at the same time.
Callers == {"a", "b"}

Init ==
    /\ PERIODIC_TASKS = <<>>
    /\ already_synced = FALSE
    /\ tables_exist = FALSE
    /\ tasks = {}
    /\ intervals = <<>>
    /\ crontabs = <<>>
    /\ clock = 0
    /\ run = Call("none", Idle, {}, <<0, 0>>, "none", FALSE, {})
    /\ since = {}
    /\ regs = 0
    /\ codebase \in Codebases
    /\ pc = [c \in Callers |-> "idle"]

\* decorators.periodic_task: append the declaration to the registry.
Register(t) ==
    /\ CallsLeft > 1
    /\ "gate" \notin since
    /\ PERIODIC_TASKS' = Append(PERIODIC_TASKS, t)
    /\ regs' = regs + 1
    /\ since' = since \cup {"registry"}
    /\ UNCHANGED <<already_synced, tables_exist, tasks, intervals, crontabs,
                   clock, run, codebase, pc>>

\* PERIODIC_TASKS.clear(): a new process, or the code without its decorators.
ClearRegistry ==
    /\ CallsLeft > 0
    /\ PERIODIC_TASKS # <<>>
    /\ since \subseteq {"store"}
    /\ PERIODIC_TASKS' = <<>>
    /\ since' = since \cup {"registry"}
    /\ UNCHANGED <<already_synced, tables_exist, tasks, intervals, crontabs,
                   clock, run, regs, codebase, pc>>

\* sync_mod._already_synced = False.
ResetGate ==
    /\ CallsLeft > 0
    /\ already_synced
    /\ already_synced' = FALSE
    /\ since' = since \cup {"gate"}
    /\ UNCHANGED <<PERIODIC_TASKS, tables_exist, tasks, intervals, crontabs,
                   clock, run, regs, codebase, pc>>

\* The migrations run: the tables exist from now on.
Migrate ==
    /\ CallsLeft > 0
    /\ ~tables_exist
    /\ tables_exist' = TRUE
    /\ UNCHANGED <<PERIODIC_TASKS, already_synced, tasks, intervals, crontabs,
                   clock, run, since, regs, codebase, pc>>

\* Another writer flips a row's enabled flag (pt.enabled = ...; pt.save()),
\* as the tests do: right after a call, once.
FlipEnabled(name) ==
    /\ CallsLeft > 0
    /\ tables_exist
    /\ since = {}
    /\ \E r \in tasks :
          /\ r.name = name
          /\ tasks' = (tasks \ {r}) \cup {[r EXCEPT !.enabled = ~@]}
    /\ since' = {"store"}
    /\ UNCHANGED <<PERIODIC_TASKS, already_synced, tables_exist, intervals,
                   crontabs, clock, run, regs, codebase, pc>>

\* Another writer has created a row of its own before the first call.
AdminCreate(name) ==
    /\ clock = 0
    /\ tables_exist
    /\ tasks = {}
    /\ since = {}
    /\ tasks' = {AdminRow(name)}
    /\ since' = {"store"}
    /\ UNCHANGED <<PERIODIC_TASKS, already_synced, tables_exist, intervals,
                   crontabs, clock, run, regs, codebase, pc>>

\* As GateClosed, without the test of the flag.
GateNeverClosed(flag) == FALSE

\* Line 36: the gate is closed once a call has passed it.
GateClosed(flag) == flag

\* As GateAfterUnavailable, without the reset of line 52.
GateLeftSet == TRUE

\* Line 52: the gate after a call that found no tables.
GateAfterUnavailable == FALSE

\* As GateAfterRun, an error of the run re-arming the gate.
GateResetOnError(latch, raised) == IF raised # 0 THEN FALSE ELSE latch

\* Lines 56-185: neither the loop, the purge, the notification nor an
\* exception leaving them writes the flag.
GateAfterRun(latch, raised) == latch

\* Lines 40-185: the call after the gate; latch is the flag as line 38 left it.
AfterGate(fail_at, latch) ==
    IF ~tables_exist
    THEN /\ fail_at = 0
         /\ already_synced' = GateAfterUnavailable
         /\ run' = Call("unavailable", Idle, tasks, Schedules, run.kind, FALSE, {})
         /\ UNCHANGED <<tasks, intervals, crontabs>>
    ELSE \E st \in {Reconcile(PERIODIC_TASKS, tasks, intervals, crontabs,
                               fail_at, clock + 1)} :
             /\ already_synced' = GateAfterRun(latch, st.raised)
             /\ tasks' = st.tasks
             /\ intervals' = st.intervals
             /\ crontabs' = st.crontabs
             /\ run' = Call(IF st.raised # 0 THEN "raised" ELSE "done", st,
                            tasks, Schedules, run.kind,
                            run.kind = "done" /\ since \subseteq {"gate"},
                            run.reconciled)

\* One call of sync_periodic_tasks(), from the gate to the return or the raise.
Sync(fail_at) ==
    /\ CallsLeft > 0
    /\ clock' = clock + 1
    /\ since' = {}
    /\ UNCHANGED <<PERIODIC_TASKS, tables_exist, regs, codebase, pc>>
    /\ IF GateClosed(already_synced)
       THEN /\ fail_at = 0
            /\ run' = Call("gated", Idle, tasks, Schedules, run.kind, FALSE, {})
            /\ UNCHANGED <<already_synced, tasks, intervals, crontabs>>
       ELSE AfterGate(fail_at, TRUE)

Next ==
    \/ \E t \in Decorated(codebase) : Register(t)
    \/ ClearRegistry
    \/ ResetGate
    \/ Migrate
    \/ \E name \in Identities : FlipEnabled(name)
    \/ \E name \in Identities : AdminCreate(name)
    \/ \E fail_at \in 0..Len(PERIODIC_TASKS) : Sync(fail_at)

Spec == Init /\ [][Next]_vars

\* ------------------------------------------------ concurrent callers
\* As GateAfterTest, the test setting the flag in the same step.
GateSetByTest(flag) == TRUE

\* Lines 36-37: the test of the flag reads it and leaves it as it is.
GateAfterTest(flag) == flag

\* Lines 36-37, by caller c: `if _already_synced: return`.
Test(c) ==
    /\ pc[c] = "idle"
    /\ pc' = [pc EXCEPT ![c] = IF GateClosed(already_synced)
                                THEN "returned" ELSE "tested"]
    /\ already_synced' = GateAfterTest(already_synced)
    /\ UNCHANGED <<PERIODIC_TASKS, tables_exist, tasks, intervals, crontabs,
                   clock, run, since, regs, codebase>>

\* Line 38, by caller c: `_already_synced = True`.
Set(c) ==
    /\ pc[c] = "tested"
    /\ pc' = [pc EXCEPT ![c] = "passed"]
    /\ already_synced' = TRUE
    /\ UNCHANGED <<PERIODIC_TASKS, tables_exist, tasks, intervals, crontabs,
                   clock, run, since, regs, codebase>>

\* Lines 40-185, by caller c: the table check and the reconciliation.
Run(c, fail_at) ==
    /\ pc[c] = "passed"
    /\ pc' = [pc EXCEPT ![c] = "done"]
    /\ clock' = clock + 1
    /\ since' = {}
    /\ AfterGate(fail_at, already_synced)
    /\ UNCHANGED <<PERIODIC_TASKS, tables_exist, regs, codebase>>

\* The declarations are registered at import, before any caller starts.
Import(t) ==
    /\ \A c \in Callers : pc[c] = "idle"
    /\ Register(t)

RaceNext ==
    \/ \E t \in Decorated(codebase) : Import(t)
    \/ Migrate
    \/ \E c \in Callers : Test(c)
    \/ \E c \in Callers : Set(c)
    \/ \E c \in Callers : \E fail_at \in 0..Len(PERIODIC_TASKS) : Run(c, fail_at)

RaceSpec == Init /\ [][RaceNext]_vars

\* ------------------------------------------------------------------ claims
\* The registry and the store are as the latest call found and left them.
Fresh == since \subseteq {"gate"}

Completed == run.kind = "done"

Indices == 1..Len(PERIODIC_TASKS)

RowsNamed(rows, name) == {r \in rows : r.name = name}

DeclaredOnce(i) ==
    \A j \in Indices :
        j # i => TaskName(PERIODIC_TASKS[j]) # TaskName(PERIODIC_TASKS[i])

OpsOf(log, ops) == {n \in 1..Len(log) : log[n].op \in ops}

RowWrites == {"create", "update", "delete"}

Notifications(log) == Cardinality(OpsOf(log, {"update_changed"}))

\* What a declaration says, read off the decorator's arguments.
DeclaredSeconds(t) ==
    IF t.interval.kind = "int" THEN t.interval.v ELSE t.interval.ms \div 1000

DeclaredCrontab(t) ==
    IF t.crontab.kind = "dict" THEN t.crontab.d
    ELSE LET parts == Split(t.crontab.s)
         IN  [minute |-> parts[1], hour |-> parts[2], day_of_month |-> parts[3],
              month_of_year |-> parts[4], day_of_week |-> parts[5]]

FiveFieldString(t) == t.crontab.kind = "str" /\ Len(Split(t.crontab.s)) = 5

BadCrontabString(t) ==
    t.interval.kind = "None" /\ t.crontab.kind = "str" /\ ~FiveFieldString(t)

Given(t, key, default) ==
    IF key \in DOMAIN t.kwargs THEN t.kwargs[key] ELSE default

DeclaredFields(t) ==
    [task |-> TaskPath(t.func),
     enabled |-> t.enabled,
     description |-> Given(t, "description", MANAGED_DESCRIPTION),
     args |-> JsonDumpsList(Given(t, "args", <<>>)),
     kwargs |-> JsonDumpsDict(Given(t, "kwargs", <<>>)),
     queue |-> Given(t, "queue", None),
     priority |-> Given(t, "priority", None)]

RowHasDeclaredFields(r, t) ==
    \A k \in DOMAIN DeclaredFields(t) : r[k] = DeclaredFields(t)[k]

RowHasDeclaredSchedule(r, t) ==
    /\ r.solar = None
    /\ r.clocked = None
    /\ IF t.interval.kind # "None"
       THEN /\ r.crontab = None
            /\ r.interval # None
            /\ intervals[r.interval[1]] =
                  [every |-> DeclaredSeconds(t), period |-> "seconds"]
       ELSE /\ r.interval = None
            /\ r.crontab # None
            /\ \A k \in DOMAIN DeclaredCrontab(t) :
                  crontabs[r.crontab[1]][k] = DeclaredCrontab(t)[k]

\* The one row of declaration t carries its target state.
ReconciledTo(t) ==
    /\ Cardinality(RowsNamed(tasks, TaskName(t))) = 1
    /\ \A r \in RowsNamed(tasks, TaskName(t)) :
          RowHasDeclaredFields(r, t) /\ RowHasDeclaredSchedule(r, t)

\* A valid schedule in the sense of C1: an interval of any non-negative number
\* of seconds, a 5-field crontab string, or a crontab field map.
ValidSchedule(t) ==
    \/ t.interval.kind # "None" /\ DeclaredSeconds(t) >= 0
    \/ t.interval.kind = "None" /\ FiveFieldString(t)
    \/ t.interval.kind = "None" /\ t.crontab.kind = "dict"

\* C1: after a call that runs to completion on an available store, every
\* declaration with a valid schedule whose identity is declared once has exactly
\* one row, and the row's task, enabled, description, args, kwargs, queue,
\* priority and schedule reference are the declaration's.
C1_ValidDeclarationsReconciled ==
    (Completed /\ Fresh) =>
        \A i \in Indices :
            (ValidSchedule(PERIODIC_TASKS[i]) /\ DeclaredOnce(i))
                => ReconciledTo(PERIODIC_TASKS[i])

\* What holds of the code: the same, for the schedules line 115 lets through
\* (an interval of zero seconds is not one of them).
Accepted(t) ==
    \/ t.interval.kind # "None" /\ t.interval # IntSeconds(0)
                                /\ t.interval # Timedelta(0)
    \/ t.interval.kind = "None" /\ FiveFieldString(t)
    \/ t.interval.kind = "None" /\ t.crontab.kind = "dict"
                                /\ DOMAIN t.crontab.d # {}

AcceptedDeclarationsReconciled ==
    (Completed /\ Fresh) =>
        \A i \in Indices :
            (Accepted(PERIODIC_TASKS[i]) /\ DeclaredOnce(i))
                => ReconciledTo(PERIODIC_TASKS[i])

DistinctIdentities == \A i \in Indices : DeclaredOnce(i)

\* C2: whatever the registry holds, a completed run that follows a completed
\* run with nothing changed in between (the gate reset apart) creates, updates
\* and deletes no row, sends no notification and leaves the number of rows as
\* it was.
C2_RepeatedRunChangesNothing ==
    (Completed /\ run.repeat /\ Fresh) =>
        /\ run.log = <<>>
        /\ Cardinality(tasks) = Cardinality(run.before)
        /\ Schedules = run.schedules

\* What holds of the code: the same, when no two declarations share an identity.
RepeatedRunOfDistinctIdentitiesChangesNothing ==
    (Completed /\ run.repeat /\ Fresh /\ DistinctIdentities) =>
        /\ run.log = <<>>
        /\ tasks = run.before
        /\ Schedules = run.schedules

\* The start time of declaration t's target state in the latest call.
DeclaredStartTime(t) == Given(t, "start_time", Some(clock))

\* The differences C3 is about: any field of the target state but a start time
\* the row already has, which no run resets.
DiffersOutsideSetStartTime(r, t) ==
    \/ ~RowHasDeclaredFields(r, t)
    \/ ~RowHasDeclaredSchedule(r, t)
    \/ r.start_time = None /\ DeclaredStartTime(t) # None

\* C3: a row that differs from the target state of its declaration (valid
\* schedule, identity declared once) when a run starts is set to the declared
\* values by that run, stays the only row of its name, and the run sends
\* exactly one notification; a further run with nothing changed sends none.
C3_DifferingRowIsReset ==
    /\ (Completed /\ Fresh) =>
          \A i \in Indices : \A r \in RowsNamed(run.before, TaskName(PERIODIC_TASKS[i])) :
              (ValidSchedule(PERIODIC_TASKS[i]) /\ DeclaredOnce(i)
                  /\ DiffersOutsideSetStartTime(r, PERIODIC_TASKS[i]))
              => /\ ReconciledTo(PERIODIC_TASKS[i])
                 /\ \A n \in RowsNamed(tasks, r.name) :
                       r.start_time = None
                           => n.start_time = DeclaredStartTime(PERIODIC_TASKS[i])
                 /\ Notifications(run.log) = 1
    /\ (Completed /\ run.repeat /\ Fresh /\ DistinctIdentities)
          => Notifications(run.log) = 0

\* What holds of the code: the same, for the schedules line 115 lets through.
AcceptedDifferingRowIsReset ==
    /\ (Completed /\ Fresh) =>
          \A i \in Indices : \A r \in RowsNamed(run.before, TaskName(PERIODIC_TASKS[i])) :
              (Accepted(PERIODIC_TASKS[i]) /\ DeclaredOnce(i)
                  /\ DiffersOutsideSetStartTime(r, PERIODIC_TASKS[i]))
              => /\ ReconciledTo(PERIODIC_TASKS[i])
                 /\ \A n \in RowsNamed(tasks, r.name) :
                       r.start_time = None
                           => n.start_time = DeclaredStartTime(PERIODIC_TASKS[i])
                 /\ Notifications(run.log) = 1
    /\ (Completed /\ run.repeat /\ Fresh /\ DistinctIdentities)
          => Notifications(run.log) = 0

\* C4: a declaration reconciled by one run and gone from the registry at the
\* next, its identity used by no other declaration: after that next completed
\* run no row has the identity, and the run sends the notification.
C4_RemovedDeclarationIsPurged ==
    (Completed /\ Fresh) =>
        \A name \in run.previously \ Range(run.active) :
            /\ RowsNamed(tasks, name) = {}
            /\ Notifications(run.log) = 1

\* What holds of the code: the same, for the rows that carry the marker.
ManagedRowOfRemovedDeclarationIsPurged ==
    (Completed /\ Fresh) =>
        \A name \in run.previously \ Range(run.active) :
            \A r \in RowsNamed(run.before, name) :
                r.description = MANAGED_DESCRIPTION
                    => /\ RowsNamed(tasks, name) = {}
                       /\ Notifications(run.log) = 1

NotifiedLast(log) ==
    /\ Notifications(log) <= 1
    /\ \A n \in OpsOf(log, {"update_changed"}) : n = Len(log)

\* C5 as stated: in every run the notification is sent at most once, after
\* every write of the run, and exactly when the run wrote a job row.
C5_NotifiedIffRowWritten ==
    /\ NotifiedLast(run.log)
    /\ Notifications(run.log) = 1 <=> OpsOf(run.log, RowWrites) # {}

\* C5 amended: at most once and after every write in every run; exactly when a
\* job row was written in every run that completes; never in a run that raises.
C5_NotifiedIffRowWrittenAndCompleted ==
    /\ NotifiedLast(run.log)
    /\ Completed => (Notifications(run.log) = 1 <=> OpsOf(run.log, RowWrites) # {})
    /\ ~Completed => Notifications(run.log) = 0

C5_Witness ==
    /\ Completed
    /\ OpsOf(run.log, {"create"}) # {}
    /\ OpsOf(run.log, {"delete"}) # {}
    /\ Notifications(run.log) = 1

NoDuplicates(table) ==
    \A m, n \in 1..Len(table) : table[m] = table[n] => m = n

IntervalDeclared(t) == t.interval.kind # "None"

CrontabDeclared(t) == t.interval.kind = "None" /\ t.crontab.kind # "None"

\* Declarations i and j are two jobs, each with a row the latest run reconciled.
TwoJobs(i, j) ==
    /\ DeclaredOnce(i) /\ DeclaredOnce(j)
    /\ TaskName(PERIODIC_TASKS[i]) \in run.reconciled
    /\ TaskName(PERIODIC_TASKS[j]) \in run.reconciled

\* C6: the store's schedule tables being empty at first, no two interval rows
\* are equal and no two crontab rows are equal, whatever calls were made; after
\* a completed run, two jobs declared with the same number of seconds have the
\* same interval row, and two jobs declared with the same crontab fields have
\* the same crontab row.
C6_SchedulesShared ==
    /\ NoDuplicates(intervals)
    /\ NoDuplicates(crontabs)
    /\ (Completed /\ Fresh) =>
          \A i, j \in Indices :
              \A ri \in RowsNamed(tasks, TaskName(PERIODIC_TASKS[i])) :
                  \A rj \in RowsNamed(tasks, TaskName(PERIODIC_TASKS[j])) :
                      /\ ( /\ TwoJobs(i, j)
                           /\ IntervalDeclared(PERIODIC_TASKS[i])
                           /\ IntervalDeclared(PERIODIC_TASKS[j])
                           /\ DeclaredSeconds(PERIODIC_TASKS[i])
                                  = DeclaredSeconds(PERIODIC_TASKS[j]) )
                            => ri.interval # None /\ ri.interval = rj.interval
                      /\ ( /\ TwoJobs(i, j)
                           /\ CrontabDeclared(PERIODIC_TASKS[i])
                           /\ CrontabDeclared(PERIODIC_TASKS[j])
                           /\ DeclaredCrontab(PERIODIC_TASKS[i])
                                  = DeclaredCrontab(PERIODIC_TASKS[j]) )
                            => ri.crontab # None /\ ri.crontab = rj.crontab

\* Thirty seconds as an int and as a timedelta: two rows, one interval.
C6_Witness ==
    /\ Completed /\ Fresh
    /\ \E i, j \in Indices :
          /\ TwoJobs(i, j)
          /\ PERIODIC_TASKS[i].interval.kind = "int"
          /\ PERIODIC_TASKS[j].interval.kind = "timedelta"
          /\ DeclaredSeconds(PERIODIC_TASKS[i]) = DeclaredSeconds(PERIODIC_TASKS[j])
          /\ \E ri, rj \in tasks :
                /\ ri.name = TaskName(PERIODIC_TASKS[i])
                /\ rj.name = TaskName(PERIODIC_TASKS[j])
                /\ ri.name # rj.name
                /\ ri.interval = rj.interval
    /\ Len(intervals) = 1

\* "0 3 * * *" as a string and as a map of five fields: two rows, one crontab.
CrontabRowShared ==
    /\ Completed /\ Fresh
    /\ \E i, j \in Indices :
          /\ TwoJobs(i, j)
          /\ PERIODIC_TASKS[i].crontab.kind = "str"
          /\ PERIODIC_TASKS[j].crontab.kind = "dict"
          /\ DeclaredCrontab(PERIODIC_TASKS[i]) = DeclaredCrontab(PERIODIC_TASKS[j])
          /\ \E ri, rj \in tasks :
                /\ ri.name = TaskName(PERIODIC_TASKS[i])
                /\ rj.name = TaskName(PERIODIC_TASKS[j])
                /\ ri.name # rj.name
                /\ ri.crontab = rj.crontab
    /\ Len(crontabs) = 1

\* A step that is a call of sync_periodic_tasks.
IsCall == clock' = clock + 1

Reconciling(kind) == kind \in {"done", "raised"}

\* C7: the latch is false until the first call; a call that finds it false and
\* the store available sets it and reconciles; a call that finds it true leaves
\* the store and the latch as they are and sends nothing, whatever the registry
\* holds; a call that reconciles found the latch false and leaves it true, and
\* no call that finds the latch true opens it, so that between two resets at
\* most one call reconciles.
C7_GateSequential ==
    /\ [](clock = 0 => ~already_synced)
    /\ [][(IsCall /\ ~already_synced /\ tables_exist)
              => already_synced' /\ Reconciling(run'.kind)]_vars
    /\ [][(IsCall /\ already_synced)
              => /\ UNCHANGED <<tasks, intervals, crontabs, already_synced>>
                 /\ run'.kind = "gated"
                 /\ run'.log = <<>>]_vars
    /\ [][(IsCall /\ Reconciling(run'.kind))
              => ~already_synced /\ already_synced']_vars
    /\ [][(IsCall /\ already_synced) => already_synced']_vars

\* A second call, made after a declaration was added, has returned at the gate:
\* the declaration has no row.
C7_Witness ==
    /\ run.kind = "gated"
    /\ run.follows = "done"
    /\ tables_exist
    /\ \E i \in Indices :
          /\ Accepted(PERIODIC_TASKS[i])
          /\ RowsNamed(tasks, TaskName(PERIODIC_TASKS[i])) = {}

RemoveAt(seq, i) == SubSeq(seq, 1, i - 1) \o SubSeq(seq, i + 1, Len(seq))

\* The store a completed run would have left had declaration i not been there.
Without(i) ==
    Reconcile(RemoveAt(PERIODIC_TASKS, i), run.before,
              SubSeq(intervals, 1, run.schedules[1]),
              SubSeq(crontabs, 1, run.schedules[2]), 0, clock)

\* C8: a declaration whose crontab string has not 5 fields never makes the run
\* raise, no write of the run is made for it, the rows of its identity are as
\* the run found them, and the other declarations are reconciled as without it:
\* those whose schedule the run accepts have their one row with the declared
\* fields, before or after it in the registry.
C8_BadCrontabStringSkipped ==
    (Reconciling(run.kind) /\ Fresh) =>
        \A i \in Indices :
            BadCrontabString(PERIODIC_TASKS[i]) =>
                /\ run.raised # i
                /\ \A n \in 1..Len(run.log) : run.log[n].decl # i
                /\ DeclaredOnce(i) =>
                      RowsNamed(tasks, TaskName(PERIODIC_TASKS[i]))
                          = RowsNamed(run.before, TaskName(PERIODIC_TASKS[i]))
                /\ \A j \in Indices \ {i} :
                      ( /\ Accepted(PERIODIC_TASKS[j]) /\ DeclaredOnce(j)
                        /\ (run.raised = 0 \/ j < run.raised) )
                      => ReconciledTo(PERIODIC_TASKS[j])
                /\ Completed =>
                      /\ intervals = Without(i).intervals
                      /\ crontabs = Without(i).crontabs
                      /\ {r \in tasks : r.name # TaskName(PERIODIC_TASKS[i])}
                            = {r \in Without(i).tasks :
                                  r.name # TaskName(PERIODIC_TASKS[i])}

\* A bad crontab string stands before a declaration whose row the run created.
C8_Witness ==
    /\ Completed /\ Fresh
    /\ \E i, j \in Indices :
          /\ i < j
          /\ BadCrontabString(PERIODIC_TASKS[i])
          /\ Accepted(PERIODIC_TASKS[j])
          /\ \E n \in OpsOf(run.log, {"create"}) : run.log[n].decl = j
          /\ RowsNamed(tasks, TaskName(PERIODIC_TASKS[i])) = {}

NoScheduleDeclared(t) == t.interval.kind = "None" /\ t.crontab.kind = "None"

\* C9: a declaration with neither interval nor crontab (its identity declared
\* once) is left out of the active identities, and the managed row that an
\* earlier run created for its identity is gone after the completed run.
C9_NoScheduleRowPurged ==
    (Completed /\ Fresh) =>
        \A i \in Indices :
            \A r \in RowsNamed(run.before, TaskName(PERIODIC_TASKS[i])) :
                ( /\ NoScheduleDeclared(PERIODIC_TASKS[i]) /\ DeclaredOnce(i)
                  /\ r.description = MANAGED_DESCRIPTION )
                => /\ TaskName(PERIODIC_TASKS[i]) \notin Range(run.active)
                   /\ RowsNamed(tasks, r.name) = {}

\* What holds of the code: the declaration is skipped, its row is kept.
NoScheduleRowKept ==
    (Completed /\ Fresh) =>
        \A i \in Indices :
            (NoScheduleDeclared(PERIODIC_TASKS[i]) /\ DeclaredOnce(i))
            => /\ TaskName(PERIODIC_TASKS[i]) \in Range(run.active)
               /\ RowsNamed(tasks, TaskName(PERIODIC_TASKS[i]))
                     = RowsNamed(run.before, TaskName(PERIODIC_TASKS[i]))

\* C10: a call that finds the gate open and no tables returns without raising,
\* writes nothing, sends nothing and leaves the gate false; the next call, made
\* once the tables exist, reconciles, walking every declaration when it
\* completes.
C10_StoreUnavailable ==
    /\ [][(IsCall /\ ~already_synced /\ ~tables_exist)
              => /\ UNCHANGED <<tasks, intervals, crontabs>>
                 /\ ~already_synced'
                 /\ run'.kind = "unavailable"
                 /\ run'.raised = 0
                 /\ run'.log = <<>>]_vars
    /\ [][(IsCall /\ run.kind = "unavailable" /\ tables_exist)
              => /\ Reconciling(run'.kind)
                 /\ run'.kind = "done"
                       => Len(run'.active) = Len(PERIODIC_TASKS)]_vars

C10_Witness ==
    /\ run.follows = "unavailable"
    /\ Completed
    /\ OpsOf(run.log, {"create"}) # {}

\* The declarations walked before the one at which the latest run raised.
Before(k) == 1..(k - 1)

\* C11: when the store fails at the k-th declaration the call raises; the rows
\* written for the declarations before k are as those declarations say, no
\* declaration after k is walked or written for, no row is deleted (the rows
\* the run did not write are as it found them) and no notification is sent.
C11_WriteErrorAborts ==
    (run.kind = "raised" /\ Fresh) =>
        /\ run.raised \in Indices
        /\ Len(run.active) = run.raised
        /\ \A n \in 1..Len(run.log) : run.log[n].decl \in 1..run.raised
        /\ OpsOf(run.log, {"delete", "update_changed"}) = {}
        /\ \A j \in Before(run.raised) :
              ( /\ Accepted(PERIODIC_TASKS[j])
                /\ \A m \in Before(run.raised) \ {j} :
                      TaskName(PERIODIC_TASKS[m]) # TaskName(PERIODIC_TASKS[j]) )
              => ReconciledTo(PERIODIC_TASKS[j])
        /\ {r \in run.before : r.name \notin run.reconciled} \subseteq tasks

\* The first declaration's row was created, the second raised.
C11_Witness ==
    /\ run.kind = "raised" /\ Fresh
    /\ run.raised = 2
    /\ \E n \in OpsOf(run.log, {"create"}) : run.log[n].decl = 1
    /\ tasks # run.before

\* A managed row of a removed declaration outlives the run that raised.
StaleRowOutlivesError ==
    /\ run.kind = "raised" /\ Fresh
    /\ \E r \in tasks :
          /\ r.description = MANAGED_DESCRIPTION
          /\ r.name \notin Range(run.active)
          /\ r.name \notin {TaskName(PERIODIC_TASKS[i]) : i \in Indices}

\* The rows the latest call found whose name no row has any more.
DeletedRows == {r \in run.before : RowsNamed(tasks, r.name) = {}}

\* The rows the loop of the latest call left alone, marked and not walked.
MarkedAndNotWalked ==
    {r \in run.before : /\ r.description = MANAGED_DESCRIPTION
                        /\ r.name \notin Range(run.active)}

DeletedNames(log) == UNION {log[n].names : n \in OpsOf(log, {"delete"})}

\* C12: the rows a completed run deletes are exactly the rows that carry the
\* marker and whose name is no identity walked in the run; in no call is a row
\* without the marker deleted, nor a row whose name was walked, nor a row the
\* run wrote.
C12_PurgeFrame ==
    Fresh =>
        /\ Completed => /\ DeletedRows = MarkedAndNotWalked
                        /\ DeletedNames(run.log) = {r.name : r \in MarkedAndNotWalked}
        /\ ~Completed => DeletedRows = {} /\ DeletedNames(run.log) = {}
        /\ \A r \in run.before :
              (r.description # MANAGED_DESCRIPTION /\ r.name \notin Range(run.active))
                  => r \in tasks
        /\ \A r \in run.before :
              r.name \in Range(run.active) => RowsNamed(tasks, r.name) # {}
        /\ \A name \in run.reconciled : RowsNamed(tasks, name) # {}

\* A run deleted a managed row and kept an unmarked row that no declaration names.
C12_Witness ==
    /\ Completed /\ Fresh
    /\ DeletedRows # {}
    /\ \E r \in run.before :
          /\ r.description # MANAGED_DESCRIPTION
          /\ r.name \notin Range(run.active)
          /\ r \in tasks

SuppliesStartTime(t) == "start_time" \in DOMAIN t.kwargs

\* C13: a row that has a start time keeps it through every call, whether its
\* declaration supplies none, another one or an explicit null; when such a row
\* differs from its declaration (identity declared once) in the start time
\* alone, the run writes nothing for the declaration, and a completed run
\* that wrote no row sends no notification. A start time that a call changed
\* was null.
C13_StartTimeWriteOnce ==
    Fresh =>
        /\ \A r \in run.before : \A n \in RowsNamed(tasks, r.name) :
              /\ r.start_time # None => n.start_time = r.start_time
              /\ n.start_time # r.start_time => r.start_time = None
        /\ \A i \in Indices :
              \A r \in RowsNamed(run.before, TaskName(PERIODIC_TASKS[i])) :
                  ( /\ Reconciling(run.kind)
                    /\ DeclaredOnce(i)
                    /\ Accepted(PERIODIC_TASKS[i])
                    /\ r.start_time # None
                    /\ r.start_time # DeclaredStartTime(PERIODIC_TASKS[i])
                    /\ RowHasDeclaredFields(r, PERIODIC_TASKS[i])
                    /\ RowHasDeclaredSchedule(r, PERIODIC_TASKS[i]) )
                  => /\ \A n \in 1..Len(run.log) :
                           run.log[n].op \in RowWrites => run.log[n].decl # i
                     /\ r \in tasks
        /\ (Completed /\ OpsOf(run.log, RowWrites) = {})
              => Notifications(run.log) = 0

\* A row with a start time, found by a run whose declaration supplies another
\* one and agrees with the row otherwise: the row is as it was, nothing is sent.
C13_Witness ==
    /\ Completed /\ Fresh
    /\ \E i \in Indices :
          \E r \in RowsNamed(run.before, TaskName(PERIODIC_TASKS[i])) :
              /\ SuppliesStartTime(PERIODIC_TASKS[i])
              /\ PERIODIC_TASKS[i].kwargs.start_time # None
              /\ r.start_time # None
              /\ r.start_time # PERIODIC_TASKS[i].kwargs.start_time
              /\ r \in tasks
    /\ run.log = <<>>

\* A row with a start time, found by a run whose declaration supplies an
\* explicit null: the run updates other fields and the start time stays.
ExplicitNullKeepsStartTime ==
    /\ Completed /\ Fresh
    /\ \E i \in Indices :
          \E r \in RowsNamed(run.before, TaskName(PERIODIC_TASKS[i])) :
              /\ SuppliesStartTime(PERIODIC_TASKS[i])
              /\ PERIODIC_TASKS[i].kwargs.start_time = None
              /\ r.start_time # None
              /\ OpsOf(run.log, {"update"}) # {}
              /\ \A n \in RowsNamed(tasks, r.name) : n.start_time = r.start_time

\* A row without a start time has it set by a run.
NullStartTimeIsSet ==
    /\ Completed /\ Fresh
    /\ \E r \in run.before : \E n \in RowsNamed(tasks, r.name) :
          r.start_time = None /\ n.start_time # None

\* Declaration i is the last of the registry with its identity, and not the only one.
LastOfDuplicates(i) ==
    /\ ~DeclaredOnce(i)
    /\ \A j \in Indices :
          TaskName(PERIODIC_TASKS[j]) = TaskName(PERIODIC_TASKS[i]) => j <= i

\* C14: when several declarations have one identity, a completed run leaves
\* exactly one row of that identity, with the fields of the last of them in
\* registration order (its schedule being valid), and does not raise.
C14_LastDuplicateWins ==
    (Completed /\ Fresh) =>
        \A i \in Indices :
            (LastOfDuplicates(i) /\ ValidSchedule(PERIODIC_TASKS[i]))
                => ReconciledTo(PERIODIC_TASKS[i])

\* What holds of the code: the same, when line 115 lets the last one through.
LastAcceptedDuplicateWins ==
    (Completed /\ Fresh) =>
        \A i \in Indices :
            (LastOfDuplicates(i) /\ Accepted(PERIODIC_TASKS[i]))
                => ReconciledTo(PERIODIC_TASKS[i])

\* The schedule slots of a row that are not null.
Slots(r) == {k \in {"interval", "crontab", "solar", "clocked"} : r[k] # None}

\* The names the latest call created or updated a row of.
WrittenNames(log) == UNION {log[n].names : n \in OpsOf(log, {"create", "update"})}

\* C15: a row that a call created or updated has one slot populated, interval
\* or crontab, and the other three null. In particular, after a completed run
\* the row of a declaration (accepted, identity declared once) has the interval
\* slot alone when the declaration gives an interval, with or without a
\* crontab, and the crontab slot alone otherwise, whatever slot the row had
\* when the run found it.
C15_OneScheduleSlot ==
    Fresh =>
        /\ \A r \in tasks :
              r.name \in WrittenNames(run.log)
                  => Slots(r) \in {{"interval"}, {"crontab"}}
        /\ Completed =>
              \A i \in Indices :
                  (Accepted(PERIODIC_TASKS[i]) /\ DeclaredOnce(i))
                  => /\ Cardinality(RowsNamed(tasks, TaskName(PERIODIC_TASKS[i]))) = 1
                     /\ \A r \in RowsNamed(tasks, TaskName(PERIODIC_TASKS[i])) :
                           Slots(r) = IF IntervalDeclared(PERIODIC_TASKS[i])
                                      THEN {"interval"} ELSE {"crontab"}

\* The declaration went from an interval to a crontab: the only row of its name
\* had the interval slot, has the crontab slot, and was updated, not created.
C15_Witness ==
    /\ Completed /\ Fresh
    /\ \E i \in Indices :
          /\ DeclaredOnce(i)
          /\ CrontabDeclared(PERIODIC_TASKS[i])
          /\ \E r \in RowsNamed(run.before, TaskName(PERIODIC_TASKS[i])) :
                Slots(r) = {"interval"}
          /\ \A r \in RowsNamed(tasks, TaskName(PERIODIC_TASKS[i])) :
                Slots(r) = {"crontab"}
          /\ \E n \in OpsOf(run.log, {"update"}) : run.log[n].decl = i
    /\ Cardinality(tasks) = Cardinality(run.before)

\* The declaration went from a crontab to an interval.
CrontabToInterval ==
    /\ Completed /\ Fresh
    /\ \E i \in Indices :
          /\ DeclaredOnce(i)
          /\ IntervalDeclared(PERIODIC_TASKS[i])
          /\ \E r \in RowsNamed(run.before, TaskName(PERIODIC_TASKS[i])) :
                Slots(r) = {"crontab"}
          /\ \A r \in RowsNamed(tasks, TaskName(PERIODIC_TASKS[i])) :
                Slots(r) = {"interval"}

\* A declaration gives both an interval and a crontab: the interval slot alone.
BothGiven ==
    /\ Completed /\ Fresh
    /\ \E i \in Indices :
          /\ DeclaredOnce(i)
          /\ IntervalDeclared(PERIODIC_TASKS[i])
          /\ PERIODIC_TASKS[i].crontab.kind # "None"
          /\ \E r \in RowsNamed(tasks, TaskName(PERIODIC_TASKS[i])) :
                Slots(r) = {"interval"}

\* A row with a solar schedule, made by other means, is updated by a run.
SolarSlotNulled ==
    /\ Completed /\ Fresh
    /\ \E r \in run.before : \E n \in RowsNamed(tasks, r.name) :
          "solar" \in Slots(r) /\ "solar" \notin Slots(n)

\* C16: every row that a call created or updated carries the managed marker
\* afterwards, whatever extra named fields its declaration supplies.
C16_WrittenRowsCarryMarker ==
    Fresh =>
        \A r \in tasks :
            r.name \in WrittenNames(run.log) => r.description = MANAGED_DESCRIPTION

\* What holds of the code: the same, when no declaration supplies a description.
WrittenRowsCarryMarkerUnlessGiven ==
    (Fresh /\ \A i \in Indices : "description" \notin DOMAIN PERIODIC_TASKS[i].kwargs) =>
        \A r \in tasks :
            r.name \in WrittenNames(run.log) => r.description = MANAGED_DESCRIPTION

\* A step in which caller c tests the flag.
Tests(c) == pc[c] = "idle" /\ pc'[c] # "idle"

\* C17: the test of the flag and its setting are two steps: a caller's test
\* leaves the flag as it is, so that every caller that tests before another
\* has set the flag passes the gate too, and a caller that has passed runs the
\* rest of the call whatever the flag has become.
C17_GateRace ==
    /\ [][\A c \in Callers :
             Tests(c) => /\ UNCHANGED <<already_synced, tasks, intervals, crontabs>>
                         /\ pc'[c] = IF already_synced THEN "returned" ELSE "tested"]_vars
    /\ [][\A c \in Callers :
             (pc[c] = "tested" /\ pc'[c] # "tested")
                 => pc'[c] = "passed" /\ already_synced']_vars
    /\ [][\A c \in Callers :
             (pc[c] = "passed" /\ pc'[c] # "passed")
                 => /\ pc'[c] = "done"
                    /\ tables_exist => Reconciling(run'.kind)]_vars

\* Both callers have passed the gate, the flag being false at both tests.
BothPassedTheGate == \A c \in Callers : pc[c] = "passed"

\* Both callers have passed the gate and both have reconciled, the second
\* finding the rows the first had created: one armed period, two runs.
C17_Witness ==
    /\ \A c \in Callers : pc[c] = "done"
    /\ Reconciling(run.follows)
    /\ Completed
    /\ run.before # {}
    /\ run.repeat

\* C18: a call that reconciles, to the end or to a store error, leaves the
\* flag true; a call never turns a true flag false; while the flag is true a
\* call is a no-op that changes no row and sends no notification: after a
\* run that raised, no call notifies until the flag is reset from outside.
C18_GateStaysClosed ==
    /\ [][(IsCall /\ Reconciling(run'.kind)) => already_synced']_vars
    /\ [][(IsCall /\ run'.kind = "unavailable")
              => (~already_synced /\ ~already_synced')]_vars
    /\ [][(IsCall /\ already_synced)
              => /\ already_synced'
                 /\ run'.kind = "gated"
                 /\ Notifications(run'.log) = 0
                 /\ UNCHANGED <<tasks, intervals, crontabs>>]_vars
    /\ [][(already_synced /\ ~already_synced') => "gate" \in since']_vars
    /\ [](run.kind = "raised" => Notifications(run.log) = 0)

\* A run wrote a row and raised at a later declaration; the next call, the
\* flag not reset, was a no-op: the row is there and nothing was notified.
C18_Witness ==
    /\ clock = 2
    /\ run.kind = "gated"
    /\ run.follows = "raised"
    /\ already_synced
    /\ \E r \in tasks : r.description = MANAGED_DESCRIPTION
    /\ Notifications(run.log) = 0

\* Declaration i gives its crontab as a field map and the run came to it.
FieldMapWalked(i) ==
    /\ i <= Len(run.active)
    /\ PERIODIC_TASKS[i].interval.kind = "None"
    /\ PERIODIC_TASKS[i].crontab.kind = "dict"

\* The five fields a field map stands for: its own, the others the wildcard.
FullCrontab(t) == t.crontab.d @@ CrontabDefaults

\* C19: in every run, a crontab declared as a field map resolves without an
\* error, and to a crontab row that has the supplied fields and the wildcard
\* in every field the map leaves out, whatever rows the table already holds.
C19_FieldMapResolves ==
    (Reconciling(run.kind) /\ Fresh) =>
        \A i \in Indices :
            FieldMapWalked(i) =>
                /\ run.raised = i
                      => Cardinality(Matching(crontabs, PERIODIC_TASKS[i].crontab.d)) <= 1
                /\ run.raised # i
                      => \E pk \in 1..Len(crontabs) :
                             crontabs[pk] = FullCrontab(PERIODIC_TASKS[i])

\* What the code gives: a field map that resolved has a row with the fields
\* it supplies; the fields it leaves out are whatever that row holds.
FieldMapMatchesSuppliedFields ==
    (Reconciling(run.kind) /\ Fresh) =>
        \A i \in Indices :
            (FieldMapWalked(i) /\ run.raised # i)
                => Matching(crontabs, PERIODIC_TASKS[i].crontab.d) # {}

\* The map {minute 0, hour 3} was resolved to the row "0 3 5 * *" of another
\* declaration: the job got a schedule for the 5th of the month only.
FieldMapPicksOtherRow ==
    /\ Completed /\ Fresh
    /\ \E i \in Indices :
          /\ FieldMapWalked(i)
          /\ Matching(crontabs, PERIODIC_TASKS[i].crontab.d) # {}
          /\ \A pk \in 1..Len(crontabs) : crontabs[pk] # FullCrontab(PERIODIC_TASKS[i])

\* The map {minute 0, hour 3} matched two rows and the run raised at it.
FieldMapRaises ==
    /\ run.kind = "raised" /\ Fresh
    /\ FieldMapWalked(run.raised)
    /\ Cardinality(Matching(crontabs, PERIODIC_TASKS[run.raised].crontab.d)) > 1
    /\ \A n \in 1..Len(run.log) : run.log[n].decl # run.raised

\* The rows the run found that were made by other means (the admin) and do
\* not carry the marker.
CreatedByOtherMeans ==
    {r \in run.before : r.task = "other.task" /\ r.description # MANAGED_DESCRIPTION}

\* C20: after every call, every row made by other means and without the
\* marker is in the store as the call found it, whatever its name.
C20_UnmanagedRowUntouched ==
    Fresh => \A r \in CreatedByOtherMeans : r \in tasks

\* C20, amended: no call deletes a row made by other means that has no
\* marker, and a call leaves it as it found it unless the run came to the
\* create-or-update step of a declaration with the row's name; then the row
\* is the declaration's: found by name, it has the declaration's task path,
\* its solar slot is nulled and the run logged an update of it.
C20_UnmanagedRowKeptUnlessNamed ==
    Fresh =>
        \A r \in CreatedByOtherMeans :
            /\ Cardinality(RowsNamed(tasks, r.name)) = 1
            /\ r.name \notin run.reconciled => r \in tasks
            /\ r.name \in run.reconciled =>
                  /\ r.name \in WrittenNames(run.log)
                  /\ r.name \notin DeletedNames(run.log)
                  /\ \A n \in RowsNamed(tasks, r.name) :
                        /\ n.solar = None
                        /\ \E i \in Indices :
                              /\ TaskName(PERIODIC_TASKS[i]) = r.name
                              /\ n.task = TaskPath(PERIODIC_TASKS[i].func)

\* An admin row named as a declared job was taken over by a completed run:
\* it now carries the marker and the declaration's task path.
C20_Witness ==
    /\ Completed /\ Fresh
    /\ \E r \in CreatedByOtherMeans :
          /\ r.name \in run.reconciled
          /\ r \notin tasks
          /\ \E n \in RowsNamed(tasks, r.name) :
                n.description = MANAGED_DESCRIPTION /\ n.task # r.task

\* An admin row whose name no declaration of the run has is left alone by a
\* completed run that wrote another row.
UnmanagedRowOfOtherNameKept ==
    /\ Completed /\ Fresh
    /\ run.reconciled # {}
    /\ \E r \in CreatedByOtherMeans : r.name \notin run.reconciled /\ r \in tasks

====
